---------------------------- MODULE Spec2Model ----------------------------
(***************************************************************************)
(* dev/latency_bench/data.js is a script of one statement,                 *)
(*                                                                         *)
(*     window.BENCHMARK_DATA = { lastUpdate, repoUrl, entries }            *)
(*                                                                         *)
(* whose right-hand side is an object literal holding the benchmark        *)
(* history of the repository: entries["Benchmark"] is an array of run      *)
(* records, each with a commit, a capture date, a tool and its benches.    *)
(*                                                                         *)
(* The literals of the file are transcribed below, one definition per run  *)
(* record.  The state machine is the evaluation of the script: an object   *)
(* literal defines its properties one after the other and an array literal *)
(* appends its elements in source order, so every prefix of the history is *)
(* a reachable state, and the last step assigns the finished object to the *)
(* global BENCHMARK_DATA.                                                  *)
(***************************************************************************)
EXTENDS Integers, Sequences, FiniteSets, TLC

(***************************************************************************)
(* Number literals.                                                        *)
(*                                                                         *)
(* lastUpdate and date are integer literals of 13 digits (milliseconds     *)
(* since the epoch).  They do not fit the 32-bit integers of TLC, so       *)
(* EpochMs(s, ms) stands for the integer s * 1000 + ms: s is the literal   *)
(* without its last three digits and ms its last three digits.             *)
(*                                                                         *)
(* A bench value is a decimal literal, written whole.frac in the file      *)
(* without sign and without exponent.  Dec(whole, frac) keeps the digits   *)
(* of the fraction as written; neg is the sign of the literal.             *)
(***************************************************************************)
EpochMs(s, ms) == [s |-> s, ms |-> ms]

Dec(whole, frac) == [neg |-> FALSE, whole |-> whole, frac |-> frac]

(* a <= b on epoch milliseconds *)
Leq(a, b) == a.s < b.s \/ (a.s = b.s /\ a.ms <= b.ms)

(***************************************************************************)
(* The literals of data.js.  Strings are copied with their escapes.        *)
(***************************************************************************)
(* lastUpdate left at the time of the update before the last one. *)
LastUpdateLit_Stale == EpochMs(1694791122, 500)

LastUpdateLit == EpochMs(1695115549, 634)

(* repoUrl written with a trailing slash. *)
RepoUrlLit_TrailingSlash == "https://github.com/awslabs/mountpoint-s3/"

RepoUrlLit == "https://github.com/awslabs/mountpoint-s3"

Run01 ==
  [commit |->
     [author |-> [email |-> "bornholt@amazon.com", name |-> "James Bornholt", username |-> "jamesbornholt"],
      committer |-> [email |-> "noreply@github.com", name |-> "GitHub", username |-> "web-flow"],
      distinct |-> TRUE,
      id |-> "c7464d043a0792a164aa6ecbb189974b2e2dfeeb",
      message |-> "Fixes for Rust 1.72 (#479)\n\n* Fixes for Rust 1.72\n\nSigned-off-by: James Bornholt <bornholt@amazon.com>\n\n* Fix tracing\n\nSigned-off-by: James Bornholt <bornholt@amazon.com>\n\n---------\n\nSigned-off-by: James Bornholt <bornholt@amazon.com>",
      timestamp |-> "2023-08-25T15:38:27Z",
      tree_id |-> "0ff6bd84f859a7b1fff3f2e95a32a004d6b80a45",
      url |-> "https://github.com/awslabs/mountpoint-s3/commit/c7464d043a0792a164aa6ecbb189974b2e2dfeeb"],
   date |-> EpochMs(1692980275, 812),
   tool |-> "customSmallerIsBetter",
   benches |-> << [name |-> "readdir_100", value |-> Dec(0, "072"), unit |-> "seconds"],
                  [name |-> "readdir_1000", value |-> Dec(0, "175"), unit |-> "seconds"],
                  [name |-> "readdir_10000", value |-> Dec(1, "149"), unit |-> "seconds"],
                  [name |-> "readdir_100000", value |-> Dec(10, "888"), unit |-> "seconds"],
                  [name |-> "time_to_first_byte_read", value |-> Dec(103, "8612371"), unit |-> "milliseconds"],
                  [name |-> "time_to_first_byte_read_small_file", value |-> Dec(76, "0403998"), unit |-> "milliseconds"] >>]

Run02 ==
  [commit |->
     [author |-> [email |-> "ahmar.suhail@gmail.com", name |-> "ahmarsuhail", username |-> "ahmarsuhail"],
      committer |-> [email |-> "noreply@github.com", name |-> "GitHub", username |-> "web-flow"],
      distinct |-> TRUE,
      id |-> "a7e12ec872d2b51f77f7fc2b9b11b4cba0305f56",
      message |-> "Updates encryption documentation for SSE-KMS, DSSE-KMS (#480)\n\n* improves encryption documentation\r\n\r\nSigned-off-by: Ahmar Suhail <ahmarsu@amazon.co.uk>\r\n\r\n* Update doc/CONFIGURATION.md\r\n\r\nCo-authored-by: James Bornholt <jamesbornholt@gmail.com>\r\nSigned-off-by: ahmarsuhail <ahmar.suhail@gmail.com>\r\n\r\n---------\r\n\r\nSigned-off-by: Ahmar Suhail <ahmarsu@amazon.co.uk>\r\nSigned-off-by: ahmarsuhail <ahmar.suhail@gmail.com>\r\nCo-authored-by: Ahmar Suhail <ahmarsu@amazon.co.uk>\r\nCo-authored-by: James Bornholt <jamesbornholt@gmail.com>",
      timestamp |-> "2023-08-25T13:05:48-05:00",
      tree_id |-> "8bdb885b6bf0211e6c94ce228ab1b96881a632b1",
      url |-> "https://github.com/awslabs/mountpoint-s3/commit/a7e12ec872d2b51f77f7fc2b9b11b4cba0305f56"],
   date |-> EpochMs(1692987391, 644),
   tool |-> "customSmallerIsBetter",
   benches |-> << [name |-> "readdir_100", value |-> Dec(0, "074"), unit |-> "seconds"],
                  [name |-> "readdir_1000", value |-> Dec(0, "185"), unit |-> "seconds"],
                  [name |-> "readdir_10000", value |-> Dec(1, "138"), unit |-> "seconds"],
                  [name |-> "readdir_100000", value |-> Dec(10, "54"), unit |-> "seconds"],
                  [name |-> "time_to_first_byte_read", value |-> Dec(97, "5525328"), unit |-> "milliseconds"],
                  [name |-> "time_to_first_byte_read_small_file", value |-> Dec(66, "968853"), unit |-> "milliseconds"] >>]

Run03 ==
  [commit |->
     [author |-> [email |-> "49699333+dependabot[bot]@users.noreply.github.com", name |-> "dependabot[bot]", username |-> "dependabot[bot]"],
      committer |-> [email |-> "noreply@github.com", name |-> "GitHub", username |-> "web-flow"],
      distinct |-> TRUE,
      id |-> "f10dc5b34edeed6d9640911054bef1366751f11e",
      message |-> "Bump aws-actions/configure-aws-credentials from 2 to 3 (#484)\n\nBumps [aws-actions/configure-aws-credentials](https://github.com/aws-actions/configure-aws-credentials) from 2 to 3.\n- [Release notes](https://github.com/aws-actions/configure-aws-credentials/releases)\n- [Changelog](https://github.com/aws-actions/configure-aws-credentials/blob/main/CHANGELOG.md)\n- [Commits](https://github.com/aws-actions/configure-aws-credentials/compare/v2...v3)\n\n---\nupdated-dependencies:\n- dependency-name: aws-actions/configure-aws-credentials\n  dependency-type: direct:production\n  update-type: version-update:semver-major\n...\n\nSigned-off-by: dependabot[bot] <support@github.com>\nCo-authored-by: dependabot[bot] <49699333+dependabot[bot]@users.noreply.github.com>",
      timestamp |-> "2023-08-28T17:31:03Z",
      tree_id |-> "e4ee11c1b6513cb4048abdcf47c05c785f3af657",
      url |-> "https://github.com/awslabs/mountpoint-s3/commit/f10dc5b34edeed6d9640911054bef1366751f11e"],
   date |-> EpochMs(1693246290, 233),
   tool |-> "customSmallerIsBetter",
   benches |-> << [name |-> "readdir_100", value |-> Dec(0, "082"), unit |-> "seconds"],
                  [name |-> "readdir_1000", value |-> Dec(0, "18"), unit |-> "seconds"],
                  [name |-> "readdir_10000", value |-> Dec(1, "154"), unit |-> "seconds"],
                  [name |-> "readdir_100000", value |-> Dec(10, "809"), unit |-> "seconds"],
                  [name |-> "time_to_first_byte_read", value |-> Dec(83, "8370987"), unit |-> "milliseconds"],
                  [name |-> "time_to_first_byte_read_small_file", value |-> Dec(72, "1544018"), unit |-> "milliseconds"] >>]

Run04 ==
  [commit |->
     [author |-> [email |-> "67096+lesserwhirls@users.noreply.github.com", name |-> "Sean Arms", username |-> "lesserwhirls"],
      committer |-> [email |-> "noreply@github.com", name |-> "GitHub", username |-> "web-flow"],
      distinct |-> TRUE,
      id |-> "09f556edf6ed4233ff6c419dbf9331ac082c11d5",
      message |-> "Support building with Clang 16 (#486)\n\nIn order to build with Clang 16, the bindgen dependency needs to be\nupgraded to at least version 0.62.0 (this change bumps to the latest,\nwhich is 0.66.1). See awslabs/mountpoint-s3#485\n\nSigned-off-by: Sean Arms <67096+lesserwhirls@users.noreply.github.com>",
      timestamp |-> "2023-08-28T18:06:18Z",
      tree_id |-> "6bcf53c04dad3ed4eb2a512919978aee74deda1e",
      url |-> "https://github.com/awslabs/mountpoint-s3/commit/09f556edf6ed4233ff6c419dbf9331ac082c11d5"],
   date |-> EpochMs(1693248083, 489),
   tool |-> "customSmallerIsBetter",
   benches |-> << [name |-> "readdir_100", value |-> Dec(0, "086"), unit |-> "seconds"],
                  [name |-> "readdir_1000", value |-> Dec(0, "191"), unit |-> "seconds"],
                  [name |-> "readdir_10000", value |-> Dec(1, "193"), unit |-> "seconds"],
                  [name |-> "readdir_100000", value |-> Dec(11, "185"), unit |-> "seconds"],
                  [name |-> "time_to_first_byte_read", value |-> Dec(91, "3870611"), unit |-> "milliseconds"],
                  [name |-> "time_to_first_byte_read_small_file", value |-> Dec(54, "508068200000004"), unit |-> "milliseconds"] >>]

(* A TLA+ string cannot hold a backquote: the backquotes of this record's *)
(* commit message are written as apostrophes.                            *)
Run05 ==
  [commit |->
     [author |-> [email |-> "bornholt@amazon.com", name |-> "James Bornholt", username |-> "jamesbornholt"],
      committer |-> [email |-> "noreply@github.com", name |-> "GitHub", username |-> "web-flow"],
      distinct |-> TRUE,
      id |-> "73a27c1d494e07354cab0d4b06a3a4499f6d466d",
      message |-> "Small fixes for S3 on Outposts (#470)\n\nThis fixes two issues that were preventing Mountpoint from working\nagainst Outposts buckets:\n1. Outposts doesn't include the bucket name in ListObjectsV2 responses.\n   We weren't actually using that output anyway, so I just removed it.\n2. For GetObject requests, we were sending a HTTP header like\n   'Accept: application/xml,*/*'. While technically valid HTTP, it's\n   weird to accept */* as well as something else, and it was confusing\n   Outposts' request signing. So I switched to overwriting the existing\n   header, which is what the comment suggested the code was intended to\n   do anyway.\n\nI also took this chance to make a little cleanup to parsing\nListObjectsV2 responses: the 'parse' functions shouldn't be defined on\nthe generic 'ListObjectsResult' structs, which are shared by all\nclients.\n\nSigned-off-by: James Bornholt <bornholt@amazon.com>",
      timestamp |-> "2023-08-30T16:35:40Z",
      tree_id |-> "444bdf0455dc0f3ab4c24c722bed5db5e1733938",
      url |-> "https://github.com/awslabs/mountpoint-s3/commit/73a27c1d494e07354cab0d4b06a3a4499f6d466d"],
   date |-> EpochMs(1693415889, 919),
   tool |-> "customSmallerIsBetter",
   benches |-> << [name |-> "readdir_100", value |-> Dec(0, "076"), unit |-> "seconds"],
                  [name |-> "readdir_1000", value |-> Dec(0, "195"), unit |-> "seconds"],
                  [name |-> "readdir_10000", value |-> Dec(1, "153"), unit |-> "seconds"],
                  [name |-> "readdir_100000", value |-> Dec(10, "843"), unit |-> "seconds"],
                  [name |-> "time_to_first_byte_read", value |-> Dec(98, "2288027"), unit |-> "milliseconds"],
                  [name |-> "time_to_first_byte_read_small_file", value |-> Dec(92, "819065"), unit |-> "milliseconds"] >>]

Run06 ==
  [commit |->
     [author |-> [email |-> "vladvolodkin@gmail.com", name |-> "Volodkin Vladislav", username |-> "vladem"],
      committer |-> [email |-> "noreply@github.com", name |-> "GitHub", username |-> "web-flow"],
      distinct |-> TRUE,
      id |-> "5626e204259e6a8141d798dbc0837ce3e3e3c3c3",
      message |-> "Allow reading restored GFR/GDA objects (#434) (#467)\n\nSigned-off-by: Vlad Volodkin <vlaad@amazon.com>\nCo-authored-by: Vlad Volodkin <vlaad@amazon.com>",
      timestamp |-> "2023-08-30T22:33:46Z",
      tree_id |-> "b6e1559cd71f934917f8e13028b3f7ddb68ef46a",
      url |-> "https://github.com/awslabs/mountpoint-s3/commit/5626e204259e6a8141d798dbc0837ce3e3e3c3c3"],
   date |-> EpochMs(1693437064, 719),
   tool |-> "customSmallerIsBetter",
   benches |-> << [name |-> "readdir_100", value |-> Dec(0, "074"), unit |-> "seconds"],
                  [name |-> "readdir_1000", value |-> Dec(0, "271"), unit |-> "seconds"],
                  [name |-> "readdir_10000", value |-> Dec(1, "112"), unit |-> "seconds"],
                  [name |-> "readdir_100000", value |-> Dec(10, "574"), unit |-> "seconds"],
                  [name |-> "time_to_first_byte_read", value |-> Dec(77, "7493373"), unit |-> "milliseconds"],
                  [name |-> "time_to_first_byte_read_small_file", value |-> Dec(78, "6989397"), unit |-> "milliseconds"] >>]

Run07 ==
  [commit |->
     [author |-> [email |-> "bornholt@amazon.com", name |-> "James Bornholt", username |-> "jamesbornholt"],
      committer |-> [email |-> "noreply@github.com", name |-> "GitHub", username |-> "web-flow"],
      distinct |-> FALSE,
      id |-> "5e8d834c2df2269d2f8670f38bc3c764d10a90f7",
      message |-> "Close input/output handles when running in background (#489)\n\nWhen we run in background mode, the child process inherits the\nstdin/stdout/stderr of the parent. That's good because we can print\nmount errors from the child and have them reach the parent. But once\nwe're mounted and the parent exits, the child still holds onto those\nhandles. This is bad if those handles are pipes, which are often used\nwhen trying to launch a daemon (e.g. Python subprocess.check_output). In\nthat case, the pipes will never close and the caller will keep waiting\nfor output on them forever.\n\nWe need to close these handles once we're successfully daemonized. This\nwill prevent us from seeing anything the process prints after they're\nclosed, but from that point we should be logging anyway, so shouldn't be\nprinting. Printing still works (doesn't panic or anything), just doesn't\ngo anywhere.\n\nWith this change, a Python script like\n\n    import subprocess\n    subprocess.check_output(['mount-s3', 'doc-example-bucket', '/bucket'])\n\nworks correctly: once the mount has succeeded, it returns. Without this\nchange, this program blocks until the bucket is unmounted.\n\nSigned-off-by: James Bornholt <bornholt@amazon.com>",
      timestamp |-> "2023-08-31T12:42:20Z",
      tree_id |-> "4b2c3032f1df614a94637e0d1e1aa4b45ca30025",
      url |-> "https://github.com/awslabs/mountpoint-s3/commit/5e8d834c2df2269d2f8670f38bc3c764d10a90f7"],
   date |-> EpochMs(1693487974, 539),
   tool |-> "customSmallerIsBetter",
   benches |-> << [name |-> "readdir_100", value |-> Dec(0, "083"), unit |-> "seconds"],
                  [name |-> "readdir_1000", value |-> Dec(0, "188"), unit |-> "seconds"],
                  [name |-> "readdir_10000", value |-> Dec(1, "142"), unit |-> "seconds"],
                  [name |-> "readdir_100000", value |-> Dec(10, "879"), unit |-> "seconds"],
                  [name |-> "time_to_first_byte_read", value |-> Dec(101, "2566887"), unit |-> "milliseconds"],
                  [name |-> "time_to_first_byte_read_small_file", value |-> Dec(65, "2557248"), unit |-> "milliseconds"] >>]

Run08 ==
  [commit |->
     [author |-> [email |-> "sauraank@amazon.co.uk", name |-> "Ankit Saurabh", username |-> "sauraank"],
      committer |-> [email |-> "noreply@github.com", name |-> "GitHub", username |-> "web-flow"],
      distinct |-> TRUE,
      id |-> "7643a22ac362e6ace91b2a266f4cc91b7e6570bc",
      message |-> "Bump version of Mountpoint to v1.0.1 (#494)\n\n* Bump version of Mountpoint to v1.0.1\n\nSigned-off-by: Ankit Saurabh <sauraank@amazon.co.uk>\n\n* Added latest PRs to CHANGELOG.md\n\nSigned-off-by: Ankit Saurabh <sauraank@amazon.co.uk>\n\n* Added latest PRs to CHANGELOG.md\n\nSigned-off-by: Ankit Saurabh <sauraank@amazon.co.uk>\n\n* Added description of changes in changelog\n\nSigned-off-by: Ankit Saurabh <sauraank@amazon.co.uk>\n\n* Added PR in the changelog\n\nSigned-off-by: Ankit Saurabh <sauraank@amazon.co.uk>\n\n* Added PR in the changelog\n\nSigned-off-by: Ankit Saurabh <sauraank@amazon.co.uk>\n\n---------\n\nSigned-off-by: Ankit Saurabh <sauraank@amazon.co.uk>",
      timestamp |-> "2023-09-01T09:11:10Z",
      tree_id |-> "eace6e6893afca2d09c22b628c500710f6a04933",
      url |-> "https://github.com/awslabs/mountpoint-s3/commit/7643a22ac362e6ace91b2a266f4cc91b7e6570bc"],
   date |-> EpochMs(1693561670, 598),
   tool |-> "customSmallerIsBetter",
   benches |-> << [name |-> "readdir_100", value |-> Dec(0, "075"), unit |-> "seconds"],
                  [name |-> "readdir_1000", value |-> Dec(0, "196"), unit |-> "seconds"],
                  [name |-> "readdir_10000", value |-> Dec(1, "154"), unit |-> "seconds"],
                  [name |-> "readdir_100000", value |-> Dec(10, "667"), unit |-> "seconds"],
                  [name |-> "time_to_first_byte_read", value |-> Dec(79, "9257521"), unit |-> "milliseconds"],
                  [name |-> "time_to_first_byte_read_small_file", value |-> Dec(75, "0004244"), unit |-> "milliseconds"] >>]

Run09 ==
  [commit |->
     [author |-> [email |-> "monthonk@amazon.com", name |-> "Monthon Klongklaew", username |-> "monthonk"],
      committer |-> [email |-> "noreply@github.com", name |-> "GitHub", username |-> "web-flow"],
      distinct |-> FALSE,
      id |-> "cc7f31e0f7db834b907ad84760c945c97f675f57",
      message |-> "Update documentation for live editing use case (#491)\n\n* Make it clear that live editing is not a good fit for mountpoint\n\nSigned-off-by: Monthon Klongklaew <monthonk@amazon.com>\n\n* Update README.md\n\nCo-authored-by: James Bornholt <jamesbornholt@gmail.com>\nSigned-off-by: Monthon Klongklaew <monthonk@amazon.com>\n\n---------\n\nSigned-off-by: Monthon Klongklaew <monthonk@amazon.com>\nCo-authored-by: James Bornholt <jamesbornholt@gmail.com>",
      timestamp |-> "2023-09-01T14:27:57Z",
      tree_id |-> "83b64928c20eeb775938d8a370c161616c10a3f3",
      url |-> "https://github.com/awslabs/mountpoint-s3/commit/cc7f31e0f7db834b907ad84760c945c97f675f57"],
   date |-> EpochMs(1693580669, 985),
   tool |-> "customSmallerIsBetter",
   benches |-> << [name |-> "readdir_100", value |-> Dec(0, "07"), unit |-> "seconds"],
                  [name |-> "readdir_1000", value |-> Dec(0, "185"), unit |-> "seconds"],
                  [name |-> "readdir_10000", value |-> Dec(1, "107"), unit |-> "seconds"],
                  [name |-> "readdir_100000", value |-> Dec(10, "633"), unit |-> "seconds"],
                  [name |-> "time_to_first_byte_read", value |-> Dec(72, "44031659999999"), unit |-> "milliseconds"],
                  [name |-> "time_to_first_byte_read_small_file", value |-> Dec(96, "3176158"), unit |-> "milliseconds"] >>]

Run10 ==
  [commit |->
     [author |-> [email |-> "monthonk@amazon.com", name |-> "Monthon Klongklaew", username |-> "monthonk"],
      committer |-> [email |-> "noreply@github.com", name |-> "GitHub", username |-> "web-flow"],
      distinct |-> TRUE,
      id |-> "efb334dc6dbb1c72f21be20d26377ccf79989166",
      message |-> "Change release title in the workflow (#496)\n\nSigned-off-by: Monthon Klongklaew <monthonk@amazon.com>",
      timestamp |-> "2023-09-01T14:28:08Z",
      tree_id |-> "62869c00cee5eb34bd3ed0e8acf104e409bde630",
      url |-> "https://github.com/awslabs/mountpoint-s3/commit/efb334dc6dbb1c72f21be20d26377ccf79989166"],
   date |-> EpochMs(1693580684, 165),
   tool |-> "customSmallerIsBetter",
   benches |-> << [name |-> "readdir_100", value |-> Dec(0, "077"), unit |-> "seconds"],
                  [name |-> "readdir_1000", value |-> Dec(0, "181"), unit |-> "seconds"],
                  [name |-> "readdir_10000", value |-> Dec(1, "123"), unit |-> "seconds"],
                  [name |-> "readdir_100000", value |-> Dec(10, "754"), unit |-> "seconds"],
                  [name |-> "time_to_first_byte_read", value |-> Dec(57, "065677"), unit |-> "milliseconds"],
                  [name |-> "time_to_first_byte_read_small_file", value |-> Dec(78, "18084990000001"), unit |-> "milliseconds"] >>]

Run11 ==
  [commit |->
     [author |-> [email |-> "sauraank@amazon.co.uk", name |-> "Ankit Saurabh", username |-> "sauraank"],
      committer |-> [email |-> "noreply@github.com", name |-> "GitHub", username |-> "web-flow"],
      distinct |-> TRUE,
      id |-> "534c3ed7f53289587b9aa47778a7ffa76109f81e",
      message |-> "Added Unreleased section in changelog (#497)\n\nSigned-off-by: Ankit Saurabh <sauraank@amazon.co.uk>",
      timestamp |-> "2023-09-01T15:57:58Z",
      tree_id |-> "7fb39eccb7cba98135a54cd7b5f5f4eeeb3dfd9f",
      url |-> "https://github.com/awslabs/mountpoint-s3/commit/534c3ed7f53289587b9aa47778a7ffa76109f81e"],
   date |-> EpochMs(1693585713, 65),
   tool |-> "customSmallerIsBetter",
   benches |-> << [name |-> "readdir_100", value |-> Dec(0, "081"), unit |-> "seconds"],
                  [name |-> "readdir_1000", value |-> Dec(0, "175"), unit |-> "seconds"],
                  [name |-> "readdir_10000", value |-> Dec(1, "165"), unit |-> "seconds"],
                  [name |-> "readdir_100000", value |-> Dec(10, "808"), unit |-> "seconds"],
                  [name |-> "time_to_first_byte_read", value |-> Dec(64, "1876625"), unit |-> "milliseconds"],
                  [name |-> "time_to_first_byte_read_small_file", value |-> Dec(66, "2393769"), unit |-> "milliseconds"] >>]

Run12 ==
  [commit |->
     [author |-> [email |-> "monthonk@amazon.com", name |-> "Monthon Klongklaew", username |-> "monthonk"],
      committer |-> [email |-> "noreply@github.com", name |-> "GitHub", username |-> "web-flow"],
      distinct |-> TRUE,
      id |-> "b632bbe9645f1f6af26ed839e791b8a34ab74b36",
      message |-> "Use default thread config for benchmark (#504)\n\nSigned-off-by: Monthon Klongklaew <monthonk@amazon.com>",
      timestamp |-> "2023-09-06T13:14:32Z",
      tree_id |-> "9c286583dea66a5ed85a09f85bd51c4bc1938e6b",
      url |-> "https://github.com/awslabs/mountpoint-s3/commit/b632bbe9645f1f6af26ed839e791b8a34ab74b36"],
   date |-> EpochMs(1694008263, 721),
   tool |-> "customSmallerIsBetter",
   benches |-> << [name |-> "readdir_100", value |-> Dec(0, "071"), unit |-> "seconds"],
                  [name |-> "readdir_1000", value |-> Dec(0, "169"), unit |-> "seconds"],
                  [name |-> "readdir_10000", value |-> Dec(1, "086"), unit |-> "seconds"],
                  [name |-> "readdir_100000", value |-> Dec(10, "588"), unit |-> "seconds"],
                  [name |-> "time_to_first_byte_read", value |-> Dec(70, "1583657"), unit |-> "milliseconds"],
                  [name |-> "time_to_first_byte_read_small_file", value |-> Dec(55, "906332"), unit |-> "milliseconds"] >>]

Run13 ==
  [commit |->
     [author |-> [email |-> "djonesoa@amazon.com", name |-> "Daniel Carl Jones", username |-> "dannycjones"],
      committer |-> [email |-> "noreply@github.com", name |-> "GitHub", username |-> "web-flow"],
      distinct |-> FALSE,
      id |-> "4db11adabc77c365d052ad99b4d64fd19b7e73bb",
      message |-> "Cancel unused in-flight prefetch tasks (#505)\n\nPreviously, mountpoint-s3 would not cancel prefetch tasks that it was going to ignore.\nInstead, they would continue to be polled by the executor despite the results never being checked.\nThis change ensures that the task handles are dropped which cancels the task/future.\n\nIn the future, we may want to retain some of these tasks where the prefetcher may still be able to make use of them.\n\nSigned-off-by: Daniel Carl Jones <djonesoa@amazon.com>",
      timestamp |-> "2023-09-06T16:52:01Z",
      tree_id |-> "a0e86d27049a74a659b94beb839ff541891b1e61",
      url |-> "https://github.com/awslabs/mountpoint-s3/commit/4db11adabc77c365d052ad99b4d64fd19b7e73bb"],
   date |-> EpochMs(1694021415, 915),
   tool |-> "customSmallerIsBetter",
   benches |-> << [name |-> "readdir_100", value |-> Dec(0, "072"), unit |-> "seconds"],
                  [name |-> "readdir_1000", value |-> Dec(0, "188"), unit |-> "seconds"],
                  [name |-> "readdir_10000", value |-> Dec(1, "207"), unit |-> "seconds"],
                  [name |-> "readdir_100000", value |-> Dec(11, "24"), unit |-> "seconds"],
                  [name |-> "time_to_first_byte_read", value |-> Dec(84, "4224647"), unit |-> "milliseconds"],
                  [name |-> "time_to_first_byte_read_small_file", value |-> Dec(83, "5045155"), unit |-> "milliseconds"] >>]

Run14 ==
  [commit |->
     [author |-> [email |-> "sauraank@amazon.co.uk", name |-> "Ankit Saurabh", username |-> "sauraank"],
      committer |-> [email |-> "noreply@github.com", name |-> "GitHub", username |-> "web-flow"],
      distinct |-> TRUE,
      id |-> "57d1bd6e525131ab58cd6a449e735aa04d9a06c3",
      message |-> "Added accesspoint variables in integration.yml (#508)\n\nSigned-off-by: Ankit Saurabh <sauraank@amazon.co.uk>",
      timestamp |-> "2023-09-07T16:56:58Z",
      tree_id |-> "9d5fa6f294a3f3fe2d3b77943c85db1ed244f855",
      url |-> "https://github.com/awslabs/mountpoint-s3/commit/57d1bd6e525131ab58cd6a449e735aa04d9a06c3"],
   date |-> EpochMs(1694108055, 549),
   tool |-> "customSmallerIsBetter",
   benches |-> << [name |-> "readdir_100", value |-> Dec(0, "074"), unit |-> "seconds"],
                  [name |-> "readdir_1000", value |-> Dec(0, "194"), unit |-> "seconds"],
                  [name |-> "readdir_10000", value |-> Dec(1, "132"), unit |-> "seconds"],
                  [name |-> "readdir_100000", value |-> Dec(10, "934"), unit |-> "seconds"],
                  [name |-> "time_to_first_byte_read", value |-> Dec(76, "797243"), unit |-> "milliseconds"],
                  [name |-> "time_to_first_byte_read_small_file", value |-> Dec(80, "8760978"), unit |-> "milliseconds"] >>]

Run15 ==
  [commit |->
     [author |-> [email |-> "sauraank@amazon.co.uk", name |-> "Ankit Saurabh", username |-> "sauraank"],
      committer |-> [email |-> "noreply@github.com", name |-> "GitHub", username |-> "web-flow"],
      distinct |-> FALSE,
      id |-> "0a8bb28009e12b99bbb0f73017ecea7a5dfed31a",
      message |-> "Removed extra $ from environment variable for MRAP (#514)\n\nSigned-off-by: Ankit Saurabh <sauraank@amazon.co.uk>",
      timestamp |-> "2023-09-13T16:40:54Z",
      tree_id |-> "7c1b6b7fb7310752d7fc7d4fc4d08d6d2cd75e4d",
      url |-> "https://github.com/awslabs/mountpoint-s3/commit/0a8bb28009e12b99bbb0f73017ecea7a5dfed31a"],
   date |-> EpochMs(1694625411, 879),
   tool |-> "customSmallerIsBetter",
   benches |-> << [name |-> "readdir_100", value |-> Dec(0, "08"), unit |-> "seconds"],
                  [name |-> "readdir_1000", value |-> Dec(0, "169"), unit |-> "seconds"],
                  [name |-> "readdir_10000", value |-> Dec(1, "153"), unit |-> "seconds"],
                  [name |-> "readdir_100000", value |-> Dec(10, "813"), unit |-> "seconds"],
                  [name |-> "time_to_first_byte_read", value |-> Dec(79, "9100509"), unit |-> "milliseconds"],
                  [name |-> "time_to_first_byte_read_small_file", value |-> Dec(79, "454774"), unit |-> "milliseconds"] >>]

Run16 ==
  [commit |->
     [author |-> [email |-> "sauraank@amazon.co.uk", name |-> "Ankit Saurabh", username |-> "sauraank"],
      committer |-> [email |-> "noreply@github.com", name |-> "GitHub", username |-> "web-flow"],
      distinct |-> TRUE,
      id |-> "8086f0e26044217b16caa21a929f6b3ed8e839b8",
      message |-> "Added accesspoint and transfer acceleration tests (#417)\n\nSigned-off-by: Ankit Saurabh <sauraank@amazon.co.uk>",
      timestamp |-> "2023-09-14T16:23:48Z",
      tree_id |-> "c760de3ebbc76103bf93522b9a1e4d376c38e62b",
      url |-> "https://github.com/awslabs/mountpoint-s3/commit/8086f0e26044217b16caa21a929f6b3ed8e839b8"],
   date |-> EpochMs(1694711122, 616),
   tool |-> "customSmallerIsBetter",
   benches |-> << [name |-> "readdir_100", value |-> Dec(0, "088"), unit |-> "seconds"],
                  [name |-> "readdir_1000", value |-> Dec(0, "18"), unit |-> "seconds"],
                  [name |-> "readdir_10000", value |-> Dec(1, "151"), unit |-> "seconds"],
                  [name |-> "readdir_100000", value |-> Dec(10, "576"), unit |-> "seconds"],
                  [name |-> "time_to_first_byte_read", value |-> Dec(105, "402678"), unit |-> "milliseconds"],
                  [name |-> "time_to_first_byte_read_small_file", value |-> Dec(90, "94622240000001"), unit |-> "milliseconds"] >>]

Run17 ==
  [commit |->
     [author |-> [email |-> "bornholt@amazon.com", name |-> "James Bornholt", username |-> "jamesbornholt"],
      committer |-> [email |-> "noreply@github.com", name |-> "GitHub", username |-> "web-flow"],
      distinct |-> FALSE,
      id |-> "7bb17a04869ff7b4d6ae16148b3fab9d0e3bdc0a",
      message |-> "Rearrange client crate and improve its docs (#511)\n\n* Rearrange client crate and improve its docs\n\nThe current docs page for the client crate is pretty indecipherable.\nWhile we're not currently suggesting customers use it directly, we know\na few already are, and we'd like the docs to be legible. So this commit\nmoves around a bunch of the public structure of the client crate to be\nconsistent and intentional.\n\nThere's no semantics changes here, this is all just rearranging and\ncommenting stuff that wasn't commented before.\n\nSigned-off-by: James Bornholt <bornholt@amazon.com>\n\n* Fix typo\n\nSigned-off-by: James Bornholt <bornholt@amazon.com>\n\n---------\n\nSigned-off-by: James Bornholt <bornholt@amazon.com>",
      timestamp |-> "2023-09-15T14:38:12Z",
      tree_id |-> "907857ff1594a237336e10962550779309db6d91",
      url |-> "https://github.com/awslabs/mountpoint-s3/commit/7bb17a04869ff7b4d6ae16148b3fab9d0e3bdc0a"],
   date |-> EpochMs(1694790930, 839),
   tool |-> "customSmallerIsBetter",
   benches |-> << [name |-> "readdir_100", value |-> Dec(0, "079"), unit |-> "seconds"],
                  [name |-> "readdir_1000", value |-> Dec(0, "166"), unit |-> "seconds"],
                  [name |-> "readdir_10000", value |-> Dec(1, "149"), unit |-> "seconds"],
                  [name |-> "readdir_100000", value |-> Dec(10, "6"), unit |-> "seconds"],
                  [name |-> "time_to_first_byte_read", value |-> Dec(86, "0456029"), unit |-> "milliseconds"],
                  [name |-> "time_to_first_byte_read_small_file", value |-> Dec(80, "02400279999999"), unit |-> "milliseconds"] >>]

Run18 ==
  [commit |->
     [author |-> [email |-> "djonesoa@amazon.com", name |-> "Daniel Carl Jones", username |-> "dannycjones"],
      committer |-> [email |-> "noreply@github.com", name |-> "GitHub", username |-> "web-flow"],
      distinct |-> FALSE,
      id |-> "b89117ad1384490a3c226e9f7cd90ec1b6d19124",
      message |-> "Update HistogramFn impl to log failure to record rather than panic (#513)\n\n* Update HistogramFn impl to log failure to record rather than panic\n\nWhen writing 50GiB of data to a file, mountpoint-s3 panicked due to an unexpected \"ValueOutOfRangeResizeDisabled\" error.\nWhen creating the Histogram, we limit it with an upper bound of 300000000. For time durations in microsecond precision, that's 300 seconds.\n\nThis change allows the histogram to fail only with a log message for values in excess of 300 seconds.\n\nSigned-off-by: Daniel Carl Jones <djonesoa@amazon.com>\n\n* Update Histogram to auto-resize\n\nPreviously, the histogram would be capped at a maximum value of 300,000,000. Now, the histogram will automatically resize.\nThis does come with the implication that more memory may be allocated if values of larger than 300,000,000 are recorded.\n\nSigned-off-by: Daniel Carl Jones <djonesoa@amazon.com>\n\n---------\n\nSigned-off-by: Daniel Carl Jones <djonesoa@amazon.com>",
      timestamp |-> "2023-09-15T14:39:02Z",
      tree_id |-> "b6691d6b356ac67b2510cad257c728d0ac670e6a",
      url |-> "https://github.com/awslabs/mountpoint-s3/commit/b89117ad1384490a3c226e9f7cd90ec1b6d19124"],
   date |-> EpochMs(1694791039, 908),
   tool |-> "customSmallerIsBetter",
   benches |-> << [name |-> "readdir_100", value |-> Dec(0, "081"), unit |-> "seconds"],
                  [name |-> "readdir_1000", value |-> Dec(0, "174"), unit |-> "seconds"],
                  [name |-> "readdir_10000", value |-> Dec(1, "172"), unit |-> "seconds"],
                  [name |-> "readdir_100000", value |-> Dec(10, "873"), unit |-> "seconds"],
                  [name |-> "time_to_first_byte_read", value |-> Dec(67, "5820458"), unit |-> "milliseconds"],
                  [name |-> "time_to_first_byte_read_small_file", value |-> Dec(71, "34666390000001"), unit |-> "milliseconds"] >>]

Run19 ==
  [commit |->
     [author |-> [email |-> "djonesoa@amazon.com", name |-> "Daniel Carl Jones", username |-> "dannycjones"],
      committer |-> [email |-> "noreply@github.com", name |-> "GitHub", username |-> "web-flow"],
      distinct |-> TRUE,
      id |-> "171c4200df20223e831dcc856103d52bc4029e15",
      message |-> "Improve logging and error handling in benchmark script (#507)\n\nSigned-off-by: Daniel Carl Jones <djonesoa@amazon.com>",
      timestamp |-> "2023-09-15T14:40:01Z",
      tree_id |-> "5ceef93a7ccacff27d8a3786e112104808a86f98",
      url |-> "https://github.com/awslabs/mountpoint-s3/commit/171c4200df20223e831dcc856103d52bc4029e15"],
   date |-> EpochMs(1694791121, 977),
   tool |-> "customSmallerIsBetter",
   benches |-> << [name |-> "readdir_100", value |-> Dec(0, "076"), unit |-> "seconds"],
                  [name |-> "readdir_1000", value |-> Dec(0, "178"), unit |-> "seconds"],
                  [name |-> "readdir_10000", value |-> Dec(1, "184"), unit |-> "seconds"],
                  [name |-> "readdir_100000", value |-> Dec(10, "662"), unit |-> "seconds"],
                  [name |-> "time_to_first_byte_read", value |-> Dec(58, "519034"), unit |-> "milliseconds"],
                  [name |-> "time_to_first_byte_read_small_file", value |-> Dec(75, "18925309999999"), unit |-> "milliseconds"] >>]

Run20 ==
  [commit |->
     [author |-> [email |-> "bornholt@amazon.com", name |-> "James Bornholt", username |-> "jamesbornholt"],
      committer |-> [email |-> "noreply@github.com", name |-> "GitHub", username |-> "web-flow"],
      distinct |-> TRUE,
      id |-> "11def4796d9479f8462fc78c7195dd5296c8b08f",
      message |-> "Build releases on CentOS 7 (#517)\n\nThis gets us compatibility back to glibc 2.17. The tricky part is that\r\nCentOS 7 by default packages a GCC that's too old to build the CRT and a\r\nClang that's too old to run bindgen. But they also distribute optional\r\npackages (devtoolsets) that update these toolchains and stick them in a\r\nseparate directory. So this change adopts those, and tweaks the\r\nenvironment variables on the builder to point at the newer tools.\r\n\r\nSigned-off-by: James Bornholt <bornholt@amazon.com>",
      timestamp |-> "2023-09-19T10:15:06+01:00",
      tree_id |-> "e142d4d3790b37b2345d8eccbb771534675adc83",
      url |-> "https://github.com/awslabs/mountpoint-s3/commit/11def4796d9479f8462fc78c7195dd5296c8b08f"],
   date |-> EpochMs(1695115549, 54),
   tool |-> "customSmallerIsBetter",
   benches |-> << [name |-> "readdir_100", value |-> Dec(0, "077"), unit |-> "seconds"],
                  [name |-> "readdir_1000", value |-> Dec(0, "173"), unit |-> "seconds"],
                  [name |-> "readdir_10000", value |-> Dec(1, "114"), unit |-> "seconds"],
                  [name |-> "readdir_100000", value |-> Dec(10, "653"), unit |-> "seconds"],
                  [name |-> "time_to_first_byte_read", value |-> Dec(97, "37342170000001"), unit |-> "milliseconds"],
                  [name |-> "time_to_first_byte_read_small_file", value |-> Dec(78, "5651175"), unit |-> "milliseconds"] >>]

(***************************************************************************)
(* Faulty variants of the array literal, each the array with one slip a    *)
(* producer of the file could make.                                        *)
(***************************************************************************)

(* Runs 9 and 10, captured 14 seconds apart, appended in the wrong order. *)
BenchmarkLit_OutOfOrder ==
  << Run01, Run02, Run03, Run04, Run05,
     Run06, Run07, Run08, Run10, Run09,
     Run11, Run12, Run13, Run14, Run15,
     Run16, Run17, Run18, Run19, Run20 >>

(* Run 12 recorded without its last bench. *)
BenchmarkLit_BenchDropped ==
  << Run01, Run02, Run03, Run04, Run05,
     Run06, Run07, Run08, Run09, Run10,
     Run11, [Run12 EXCEPT !.benches = SubSeq(@, 1, Len(@) - 1)], Run13, Run14, Run15,
     Run16, Run17, Run18, Run19, Run20 >>

(* Run 3 recorded although its benchmark produced no output. *)
BenchmarkLit_NoBenches ==
  << Run01, Run02, [Run03 EXCEPT !.benches = << >>], Run04, Run05,
     Run06, Run07, Run08, Run09, Run10,
     Run11, Run12, Run13, Run14, Run15,
     Run16, Run17, Run18, Run19, Run20 >>

(* The first bench of run 7 recorded as a negative duration. *)
BenchmarkLit_NegativeValue ==
  << Run01, Run02, Run03, Run04, Run05,
     Run06, [Run07 EXCEPT !.benches[1].value.neg = TRUE], Run08, Run09, Run10,
     Run11, Run12, Run13, Run14, Run15,
     Run16, Run17, Run18, Run19, Run20 >>

(* Run 15 recorded without its tool. *)
BenchmarkLit_ToolMissing ==
  << Run01, Run02, Run03, Run04, Run05,
     Run06, Run07, Run08, Run09, Run10,
     Run11, Run12, Run13, Run14,
     [k \in DOMAIN Run15 \ {"tool"} |-> Run15[k]],
     Run16, Run17, Run18, Run19, Run20 >>

(* The benchmark of the last commit run and recorded a second time. *)
BenchmarkLit_CommitTwice ==
  << Run01, Run02, Run03, Run04, Run05,
     Run06, Run07, Run08, Run09, Run10,
     Run11, Run12, Run13, Run14, Run15,
     Run16, Run17, Run18, Run19, Run20, Run20 >>

(* The timestamp of the last commit recorded without its UTC offset: the  *)
(* local time 10:15:06 of +01:00 read as UTC.                             *)
BenchmarkLit_OffsetDropped ==
  << Run01, Run02, Run03, Run04, Run05,
     Run06, Run07, Run08, Run09, Run10,
     Run11, Run12, Run13, Run14, Run15,
     Run16, Run17, Run18, Run19,
     [Run20 EXCEPT !.commit.timestamp = "2023-09-19T10:15:06Z"] >>

(* Run 11 recorded by another tool of the benchmark action. *)
BenchmarkLit_OtherTool ==
  << Run01, Run02, Run03, Run04, Run05,
     Run06, Run07, Run08, Run09, Run10,
     [Run11 EXCEPT !.tool = "customBiggerIsBetter"], Run12, Run13, Run14, Run15,
     Run16, Run17, Run18, Run19, Run20 >>

(* readdir_100 of run 18 recorded in milliseconds: 76 instead of 0.076. *)
BenchmarkLit_UnitChanged ==
  << Run01, Run02, Run03, Run04, Run05,
     Run06, Run07, Run08, Run09, Run10,
     Run11, Run12, Run13, Run14, Run15,
     Run16, Run17,
     [Run18 EXCEPT !.benches[1] = [name |-> "readdir_100", value |-> Dec(76, ""), unit |-> "milliseconds"]],
     Run19, Run20 >>

BenchmarkLit ==
  << Run01, Run02, Run03, Run04, Run05,
     Run06, Run07, Run08, Run09, Run10,
     Run11, Run12, Run13, Run14, Run15,
     Run16, Run17, Run18, Run19, Run20 >>

(***************************************************************************)
(* Evaluation of the script.                                               *)
(*                                                                         *)
(*   pc         position of the evaluation in the file                     *)
(*   window     the global object; BENCHMARK_DATA is defined by the last   *)
(*              step                                                       *)
(*   top        the top-level object under construction (a function from   *)
(*              its property names)                                        *)
(*   Benchmark  the array entries["Benchmark"] under construction          *)
(*   run        the run record under construction                          *)
(***************************************************************************)
VARIABLES pc, window, top, Benchmark, run

vars == <<pc, window, top, Benchmark, run>>

(* The empty object {} and the empty array []. *)
EmptyObject == <<>>

(* obj with property k defined as v (a later definition of k overrides). *)
Define(obj, k, v) == (k :> v) @@ obj

Init ==
  /\ pc = "lastUpdate"
  /\ window = EmptyObject
  /\ top = EmptyObject
  /\ Benchmark = <<>>
  /\ run = EmptyObject

(* "lastUpdate": 1695115549634, *)
EvalLastUpdate ==
  /\ pc = "lastUpdate"
  /\ top' = Define(top, "lastUpdate", LastUpdateLit)
  /\ pc' = "repoUrl"
  /\ UNCHANGED <<window, Benchmark, run>>

(* "repoUrl": "https://github.com/awslabs/mountpoint-s3", *)
EvalRepoUrl ==
  /\ pc = "repoUrl"
  /\ top' = Define(top, "repoUrl", RepoUrlLit)
  /\ pc' = "element"
  /\ UNCHANGED <<window, Benchmark, run>>

(* The array element the evaluation is at: the one after those appended. *)
NextRun == BenchmarkLit[Len(Benchmark) + 1]

(* "{" of the next run record of the array literal. *)
BeginRun ==
  /\ pc = "element"
  /\ Len(Benchmark) < Len(BenchmarkLit)
  /\ run' = EmptyObject
  /\ pc' = "property"
  /\ UNCHANGED <<window, top, Benchmark>>

(* The next property of the run record: its value is evaluated and the    *)
(* property defined on the record.  The properties of one record have     *)
(* distinct names, so the order of their definition does not show in the  *)
(* record; the model takes them in a fixed order.                         *)
EvalProperty ==
  /\ pc = "property"
  /\ DOMAIN NextRun \ DOMAIN run # {}
  /\ LET k == CHOOSE f \in DOMAIN NextRun \ DOMAIN run : TRUE
     IN  run' = Define(run, k, NextRun[k])
  /\ UNCHANGED <<pc, window, top, Benchmark>>

(* "}" of the run record: the record becomes the next element of the array. *)
EndRun ==
  /\ pc = "property"
  /\ DOMAIN NextRun \ DOMAIN run = {}
  /\ Benchmark' = Append(Benchmark, run)
  /\ pc' = "element"
  /\ UNCHANGED <<window, top, run>>

(* "]" of the array and "}" of entries: entries is defined on the         *)
(* top-level object with the array as its one suite, "Benchmark".         *)
EndEntries ==
  /\ pc = "element"
  /\ Len(Benchmark) = Len(BenchmarkLit)
  /\ top' = Define(top, "entries", Define(EmptyObject, "Benchmark", Benchmark))
  /\ pc' = "assign"
  /\ UNCHANGED <<window, Benchmark, run>>

(* window.BENCHMARK_DATA = { ... } *)
Assign ==
  /\ pc = "assign"
  /\ window' = Define(window, "BENCHMARK_DATA", top)
  /\ pc' = "done"
  /\ UNCHANGED <<top, Benchmark, run>>

Next ==
  \/ EvalLastUpdate
  \/ EvalRepoUrl
  \/ BeginRun
  \/ EvalProperty
  \/ EndRun
  \/ EndEntries
  \/ Assign

Spec == Init /\ [][Next]_vars

(* The script has run to its end. *)
Loaded == pc = "done"

(* The run records of the file, once the script has run. *)
Runs == window["BENCHMARK_DATA"]["entries"]["Benchmark"]

(***************************************************************************)
(* Properties of the history.  Each is stated of the array under           *)
(* construction, so it is checked of every prefix of the history as well   *)
(* as of the array the script leaves in window.BENCHMARK_DATA.             *)
(***************************************************************************)

(* The run records are all evaluated and BENCHMARK_DATA holds them. *)
WholeHistory == Loaded /\ Runs = Benchmark /\ Len(Runs) = Len(BenchmarkLit)

(* C1: along entries["Benchmark"], in array order, the date of a run      *)
(* record is less than or equal to the date of the record after it.       *)
DatesNonDecreasing ==
  \A i \in 1..(Len(Benchmark) - 1) :
    Leq(Benchmark[i].date, Benchmark[i + 1].date)

(* The whole history is loaded and holds two consecutive runs captured    *)
(* within the same minute, the later one strictly later.                  *)
DatesNonDecreasing_Witness ==
  /\ WholeHistory
  /\ \E i \in 1..(Len(Runs) - 1) :
       /\ Runs[i + 1].date.s - Runs[i].date.s < 60
       /\ ~Leq(Runs[i + 1].date, Runs[i].date)

(* The bench names of a run record, in order. *)
Names(r) == [k \in DOMAIN r.benches |-> r.benches[k].name]

NoRepeat(seq) == \A a, b \in DOMAIN seq : a # b => seq[a] # seq[b]

(* C2: every run record has the same sequence of bench names (same names, *)
(* same order, same length), and no name is repeated inside a record.     *)
SameNamesInEveryRun ==
  /\ \A i, j \in DOMAIN Benchmark : Names(Benchmark[i]) = Names(Benchmark[j])
  /\ \A i \in DOMAIN Benchmark : NoRepeat(Names(Benchmark[i]))

(* The whole history is loaded and its first and last run both carry the  *)
(* six names, readdir_100 first and the small-file read last.             *)
SameNamesInEveryRun_Witness ==
  /\ WholeHistory
  /\ Len(Names(Runs[1])) = 6
  /\ Names(Runs[1])[1] = "readdir_100"
  /\ Names(Runs[Len(Runs)])[6] = "time_to_first_byte_read_small_file"

(* C3: benches of every run record is a non-empty sequence. *)
BenchesNonEmpty ==
  \A i \in DOMAIN Benchmark :
    /\ DOMAIN Benchmark[i].benches = 1..Len(Benchmark[i].benches)
    /\ Len(Benchmark[i].benches) >= 1

(* The whole history is loaded, twenty runs of six benches each. *)
BenchesNonEmpty_Witness ==
  /\ WholeHistory
  /\ Len(Runs) = 20
  /\ \A i \in DOMAIN Runs : Len(Runs[i].benches) = 6

Digits == {"0", "1", "2", "3", "4", "5", "6", "7", "8", "9"}

KnownUnits == {"seconds", "milliseconds"}

(* A decimal literal without exponent denotes a finite number; it is      *)
(* greater than or equal to 0 when it has no sign.                        *)
FiniteNonNegative(v) ==
  /\ v.neg = FALSE
  /\ v.whole \in Nat
  /\ \A k \in 1..Len(v.frac) : SubSeq(v.frac, k, k) \in Digits

(* C4: the value of every measurement of every run record is a finite     *)
(* number >= 0, and its unit is "seconds" or "milliseconds".              *)
ValuesAndUnitsValid ==
  \A i \in DOMAIN Benchmark :
    \A k \in DOMAIN Benchmark[i].benches :
      /\ FiniteNonNegative(Benchmark[i].benches[k].value)
      /\ Benchmark[i].benches[k].unit \in KnownUnits

(* The whole history is loaded; one run holds a value below 1 in seconds  *)
(* and a value above 100 in milliseconds.                                 *)
ValuesAndUnitsValid_Witness ==
  /\ WholeHistory
  /\ \E i \in DOMAIN Runs :
       \E k, m \in DOMAIN Runs[i].benches :
         /\ Runs[i].benches[k].value.whole = 0
         /\ Runs[i].benches[k].unit = "seconds"
         /\ Runs[i].benches[m].value.whole > 100
         /\ Runs[i].benches[m].unit = "milliseconds"

(* An integer number of milliseconds since the epoch. *)
IsEpochMs(d) ==
  /\ DOMAIN d = {"s", "ms"}
  /\ d.s \in Nat
  /\ d.ms \in 0..999

IsSequence(a) == DOMAIN a = 1..Len(a)

RunFields == {"commit", "date", "tool", "benches"}

CommitFields ==
  {"author", "committer", "distinct", "id", "message", "timestamp", "tree_id", "url"}

MeasurementFields == {"name", "value", "unit"}

TopFields == {"lastUpdate", "repoUrl", "entries"}

(* The declared shape of a run record. *)
RunShape(r) ==
  /\ DOMAIN r = RunFields
  /\ IsEpochMs(r.date)
  /\ r.tool \in STRING
  /\ DOMAIN r.commit = CommitFields
  /\ r.commit.distinct \in BOOLEAN
  /\ IsSequence(r.benches)
  /\ \A k \in DOMAIN r.benches : DOMAIN r.benches[k] = MeasurementFields

(* The declared shape of the top-level object. *)
TopShape(d) ==
  /\ DOMAIN d = TopFields
  /\ IsEpochMs(d.lastUpdate)
  /\ d.repoUrl \in STRING
  /\ \A suite \in DOMAIN d.entries :
       /\ suite \in STRING
       /\ IsSequence(d.entries[suite])
       /\ \A i \in DOMAIN d.entries[suite] : RunShape(d.entries[suite][i])

(* C6: the object of the file has exactly lastUpdate (integer), repoUrl   *)
(* (string) and entries (suite name to sequence of run records); a run    *)
(* record has exactly commit, date (integer), tool (string) and benches;  *)
(* a commit has exactly author, committer, distinct (boolean), id,        *)
(* message, timestamp, tree_id and url; a measurement has exactly name,   *)
(* value and unit.                                                        *)
DeclaredShape ==
  /\ \A i \in DOMAIN Benchmark : RunShape(Benchmark[i])
  /\ Loaded => TopShape(window["BENCHMARK_DATA"])

(* The whole history is loaded as the one global BENCHMARK_DATA, with the *)
(* one suite "Benchmark"; distinct is true in one commit and false in     *)
(* another.                                                               *)
DeclaredShape_Witness ==
  /\ WholeHistory
  /\ DOMAIN window = {"BENCHMARK_DATA"}
  /\ DOMAIN window["BENCHMARK_DATA"]["entries"] = {"Benchmark"}
  /\ \E i, j \in DOMAIN Runs :
       Runs[i].commit.distinct /\ ~Runs[j].commit.distinct

(* C7: lastUpdate is greater than or equal to the date of every run       *)
(* record of every suite of entries, the last appended record included.   *)
LastUpdateNotBeforeDates ==
  /\ \A i \in DOMAIN Benchmark : Leq(Benchmark[i].date, top["lastUpdate"])
  /\ Loaded =>
       LET d == window["BENCHMARK_DATA"]
       IN  \A suite \in DOMAIN d.entries :
             \A i \in DOMAIN d.entries[suite] :
               Leq(d.entries[suite][i].date, d.lastUpdate)

(* The whole history is loaded; the last run was captured in the same     *)
(* second as lastUpdate, some milliseconds earlier.                       *)
LastUpdateNotBeforeDates_Witness ==
  /\ WholeHistory
  /\ LET d == window["BENCHMARK_DATA"]
         last == Runs[Len(Runs)]
     IN  /\ last.date.s = d.lastUpdate.s
         /\ last.date.ms < d.lastUpdate.ms

(* C8: two distinct run records of entries["Benchmark"] have different    *)
(* commit ids.                                                            *)
CommitRecordedOnce ==
  \A i, j \in DOMAIN Benchmark :
    i # j => Benchmark[i].commit.id # Benchmark[j].commit.id

(* The whole history is loaded; two consecutive runs are of different     *)
(* commits by the same author.                                            *)
CommitRecordedOnce_Witness ==
  /\ WholeHistory
  /\ \E i \in 1..(Len(Runs) - 1) :
       /\ Runs[i].commit.author = Runs[i + 1].commit.author
       /\ Runs[i].commit.id # Runs[i + 1].commit.id

(* C9: commit.url of every run record is repoUrl, then "/commit/", then   *)
(* the commit id of the record.                                           *)
CommitUrlFromRepoUrl ==
  \A i \in DOMAIN Benchmark :
    Benchmark[i].commit.url
      = top["repoUrl"] \o "/commit/" \o Benchmark[i].commit.id

(* The whole history is loaded; the url of the first commit is the        *)
(* GitHub page of commit c7464d04... of awslabs/mountpoint-s3.            *)
CommitUrlFromRepoUrl_Witness ==
  /\ WholeHistory
  /\ window["BENCHMARK_DATA"]["repoUrl"] = "https://github.com/awslabs/mountpoint-s3"
  /\ Runs[1].commit.id = "c7464d043a0792a164aa6ecbb189974b2e2dfeeb"
  /\ Runs[1].commit.url
       = "https://github.com/awslabs/mountpoint-s3/commit/c7464d043a0792a164aa6ecbb189974b2e2dfeeb"

HasPrefix(str, prefix) ==
  /\ Len(str) >= Len(prefix)
  /\ SubSeq(str, 1, Len(prefix)) = prefix

(* C10: two measurements of the same name, in the same or in different    *)
(* run records, have the same unit; a readdir_* measurement is in         *)
(* "seconds" and a time_to_first_byte_* measurement in "milliseconds".    *)
UnitDeterminedByName ==
  \A i \in DOMAIN Benchmark :
    \A k \in DOMAIN Benchmark[i].benches :
      LET m == Benchmark[i].benches[k]
      IN  /\ \A j \in DOMAIN Benchmark :
               \A l \in DOMAIN Benchmark[j].benches :
                 Benchmark[j].benches[l].name = m.name
                   => Benchmark[j].benches[l].unit = m.unit
          /\ HasPrefix(m.name, "readdir_") => m.unit = "seconds"
          /\ HasPrefix(m.name, "time_to_first_byte_") => m.unit = "milliseconds"

(* The whole history is loaded; readdir_100 has different values in two   *)
(* runs and the same unit, and the last run has measurements of both      *)
(* families.                                                              *)
UnitDeterminedByName_Witness ==
  /\ WholeHistory
  /\ \E i, j \in DOMAIN Runs :
       /\ Runs[i].benches[1].name = "readdir_100"
       /\ Runs[j].benches[1].name = "readdir_100"
       /\ Runs[i].benches[1].value # Runs[j].benches[1].value
       /\ Runs[i].benches[1].unit = Runs[j].benches[1].unit
  /\ \E k, l \in DOMAIN Runs[Len(Runs)].benches :
       /\ HasPrefix(Runs[Len(Runs)].benches[k].name, "readdir_")
       /\ HasPrefix(Runs[Len(Runs)].benches[l].name, "time_to_first_byte_")

(***************************************************************************)
(* commit.timestamp is an ISO 8601 string, YYYY-MM-DDThh:mm:ss followed by *)
(* "Z" or by a UTC offset +hh:mm or -hh:mm.  EpochSeconds reads it         *)
(* character by character and gives the seconds since 1970-01-01T00:00:00Z.*)
(***************************************************************************)
DigitValue(c) ==
  CASE c = "0" -> 0 [] c = "1" -> 1 [] c = "2" -> 2 [] c = "3" -> 3
    [] c = "4" -> 4 [] c = "5" -> 5 [] c = "6" -> 6 [] c = "7" -> 7
    [] c = "8" -> 8 [] c = "9" -> 9

CharAt(str, k) == SubSeq(str, k, k)

RECURSIVE Number(_, _, _)
(* The decimal number written in characters from..to of str. *)
Number(str, from, to) ==
  IF to < from THEN 0
  ELSE 10 * Number(str, from, to - 1) + DigitValue(CharAt(str, to))

(* Days from 1970-01-01 to the day y-m-d of the Gregorian calendar. *)
DaysFromCivil(y, m, d) ==
  LET yy  == IF m <= 2 THEN y - 1 ELSE y
      era == yy \div 400
      yoe == yy - era * 400
      mp  == IF m > 2 THEN m - 3 ELSE m + 9
      doy == (153 * mp + 2) \div 5 + d - 1
      doe == yoe * 365 + yoe \div 4 - yoe \div 100 + doy
  IN  era * 146097 + doe - 719468

(* The UTC offset of the timestamp in seconds: 0 for "Z". *)
OffsetSeconds(ts) ==
  IF CharAt(ts, 20) = "Z" THEN 0
  ELSE LET amount == Number(ts, 21, 22) * 3600 + Number(ts, 24, 25) * 60
       IN  IF CharAt(ts, 20) = "-" THEN 0 - amount ELSE amount

(* The form the conversion reads. *)
IsIso8601(ts) ==
  /\ Len(ts) \in {20, 25}
  /\ \A k \in {1, 2, 3, 4, 6, 7, 9, 10, 12, 13, 15, 16, 18, 19} :
       CharAt(ts, k) \in Digits
  /\ CharAt(ts, 5) = "-" /\ CharAt(ts, 8) = "-" /\ CharAt(ts, 11) = "T"
  /\ CharAt(ts, 14) = ":" /\ CharAt(ts, 17) = ":"
  /\ IF Len(ts) = 20 THEN CharAt(ts, 20) = "Z"
     ELSE /\ CharAt(ts, 20) \in {"+", "-"}
          /\ \A k \in {21, 22, 24, 25} : CharAt(ts, k) \in Digits
          /\ CharAt(ts, 23) = ":"

(* Local time minus offset is UTC. *)
EpochSeconds(ts) ==
  DaysFromCivil(Number(ts, 1, 4), Number(ts, 6, 7), Number(ts, 9, 10)) * 86400
    + Number(ts, 12, 13) * 3600 + Number(ts, 15, 16) * 60 + Number(ts, 18, 19)
    - OffsetSeconds(ts)

(* C11: the timestamp of the commit of every run record, converted from   *)
(* its ISO 8601 form with UTC offset to epoch milliseconds, is less than  *)
(* or equal to the capture date of the record.                            *)
CommitNotAfterCapture ==
  \A i \in DOMAIN Benchmark :
    /\ IsIso8601(Benchmark[i].commit.timestamp)
    /\ Leq(EpochMs(EpochSeconds(Benchmark[i].commit.timestamp), 0),
           Benchmark[i].date)

(* The whole history is loaded.  The first commit, written with "Z", is   *)
(* of second 1692977907; the second, written with -05:00, and the last,   *)
(* written with +01:00, are before their capture dates, and the last one  *)
(* only because its offset is taken off: its local time, read as UTC, is  *)
(* after the capture date.                                                *)
CommitNotAfterCapture_Witness ==
  /\ WholeHistory
  /\ Runs[1].commit.timestamp = "2023-08-25T15:38:27Z"
  /\ EpochSeconds(Runs[1].commit.timestamp) = 1692977907
  /\ OffsetSeconds(Runs[2].commit.timestamp) = 0 - 18000
  /\ EpochSeconds(Runs[2].commit.timestamp) = 1692986748
  /\ LET last == Runs[Len(Runs)]
     IN  /\ OffsetSeconds(last.commit.timestamp) = 3600
         /\ EpochSeconds(last.commit.timestamp) = 1695114906
         /\ EpochSeconds(last.commit.timestamp) < last.date.s
         /\ EpochSeconds(last.commit.timestamp)
              + OffsetSeconds(last.commit.timestamp) > last.date.s

(* C12: every run record of entries["Benchmark"] has the tool             *)
(* "customSmallerIsBetter".                                               *)
SameToolInEveryRun ==
  \A i \in DOMAIN Benchmark : Benchmark[i].tool = "customSmallerIsBetter"

(* The whole history is loaded; its first and its last run, of different  *)
(* commits, carry the tool.                                               *)
SameToolInEveryRun_Witness ==
  /\ WholeHistory
  /\ Len(Runs) >= 2
  /\ Runs[1].commit.id # Runs[Len(Runs)].commit.id
  /\ Runs[1].tool = "customSmallerIsBetter"
  /\ Runs[Len(Runs)].tool = "customSmallerIsBetter"

=============================================================================
